---------------------------- MODULE Spec2Model ----------------------------
(***************************************************************************)
(* A model of metadata_converter.py: the NIC metadata to Dublin Core and   *)
(* DCAT converter.                                                         *)
(*                                                                         *)
(* A Python str is a sequence of one-character strings, so that lower(),   *)
(* strip(), startswith(), strptime(), strftime() and the f-string          *)
(* concatenations are computed and not assumed.  The two null values of a  *)
(* pandas row (NaN for an empty cell, None for row.get() of a column the   *)
(* table does not have) are the one-element sequences NaN and None, whose  *)
(* element is no character.                                                *)
(*                                                                         *)
(* An RDF graph is a set of triples <<subject, predicate, object>>, as     *)
(* rdflib's Graph is.  A subject is the text of its URIRef, a predicate is *)
(* the prefixed name of the rdflib term, an object is a URIRef or Literal. *)
(***************************************************************************)
EXTENDS Integers, Sequences, FiniteSets, TLC

VARIABLES
    pc,           \* the position of main(), or of the function under call
    padYear,      \* the build: whether strftime("%Y") zero-pads a year < 1000
    df,           \* the table parse_csv returned (main's df)
    idx,          \* the row the running builder loop is at
    dc_g,         \* create_dublin_core_graph's g
    dublin_data,  \* create_dublin_core_graph's dublin_data
    dcat_g,       \* create_dcat_graph's g
    dcat_data,    \* create_dcat_graph's dcat_data
    files,        \* the output files written so far
    arg,          \* the argument of the normalizer under call
    ret           \* what the normalizer returned

vars == <<pc, padYear, df, idx, dc_g, dublin_data, dcat_g, dcat_data, files, arg, ret>>

---------------------------------------------------------------------------
(* Text *)

NaN == <<"NaN">>
None == <<"None">>

\* pd.notna / pd.isna of a scalar
notna(x) == x # NaN /\ x # None
isna(x) == ~notna(x)

\* the truth value of an optional str: None and '' are false
Truthy(x) == x # None /\ x # <<>>

UPPER == <<"A", "B", "C", "D", "E", "F", "G", "H", "I", "J", "K", "L", "M",
           "N", "O", "P", "Q", "R", "S", "T", "U", "V", "W", "X", "Y", "Z">>
LOWER == <<"a", "b", "c", "d", "e", "f", "g", "h", "i", "j", "k", "l", "m",
           "n", "o", "p", "q", "r", "s", "t", "u", "v", "w", "x", "y", "z">>
DIGITS == <<"0", "1", "2", "3", "4", "5", "6", "7", "8", "9">>
Whitespace == {" ", "\t"}

IsDigit(c) == \E i \in 1..10 : DIGITS[i] = c
DigitVal(c) == (CHOOSE i \in 1..10 : DIGITS[i] = c) - 1

\* str.lower(), one character
LowerChar(c) ==
    IF \E i \in 1..26 : UPPER[i] = c
    THEN LOWER[CHOOSE i \in 1..26 : UPPER[i] = c]
    ELSE c

\* str.lower()
lower(s) == [i \in 1..Len(s) |-> LowerChar(s[i])]

\* str.strip(): the whitespace at both ends removed
strip(s) ==
    LET keep == {i \in 1..Len(s) : s[i] \notin Whitespace}
    IN  IF keep = {} THEN <<>>
        ELSE LET lo == CHOOSE i \in keep : \A j \in keep : i <= j
                 hi == CHOOSE i \in keep : \A j \in keep : j <= i
             IN  SubSeq(s, lo, hi)

\* str.startswith(prefix)
startswith(s, prefix) ==
    Len(s) >= Len(prefix) /\ SubSeq(s, 1, Len(prefix)) = prefix

\* str.split(sep) for a one-character separator
RECURSIVE split(_, _)
split(s, sep) ==
    IF \A i \in 1..Len(s) : s[i] # sep THEN <<s>>
    ELSE LET k == CHOOSE i \in 1..Len(s) :
                      s[i] = sep /\ \A j \in 1..(i - 1) : s[j] # sep
         IN  <<SubSeq(s, 1, k - 1)>> \o split(SubSeq(s, k + 1, Len(s)), sep)

\* int() of a text of decimal digits
RECURSIVE DigitsValue(_)
DigitsValue(s) ==
    IF s = <<>> THEN 0
    ELSE 10 * DigitsValue(SubSeq(s, 1, Len(s) - 1)) + DigitVal(s[Len(s)])

\* str() of a natural number
RECURSIVE NatStr(_)
NatStr(n) ==
    IF n < 10 THEN <<DIGITS[n + 1]>>
    ELSE NatStr(n \div 10) \o <<DIGITS[(n % 10) + 1]>>

\* a natural number zero-padded to a width, as strftime pads
RECURSIVE ZeroPad(_, _)
ZeroPad(s, width) == IF Len(s) >= width THEN s ELSE ZeroPad(<<"0">> \o s, width)

---------------------------------------------------------------------------
(* normalize_frequency *)

FREQ_BASE == <<"h", "t", "t", "p", ":", "/", "/", "p", "u", "r", "l", ".",
               "o", "r", "g", "/", "c", "l", "d", "/", "f", "r", "e", "q", "/">>
daily == <<"d", "a", "i", "l", "y">>
weekly == <<"w", "e", "e", "k", "l", "y">>
monthly == <<"m", "o", "n", "t", "h", "l", "y">>
yearly == <<"y", "e", "a", "r", "l", "y">>
annual == <<"a", "n", "n", "u", "a", "l">>
quarterly == <<"q", "u", "a", "r", "t", "e", "r", "l", "y">>

\* the keys of freq_mapping
FreqTerms == {daily, weekly, monthly, yearly, quarterly}

\* freq_mapping[key]
freq_mapping(key) ==
    CASE key = daily -> FREQ_BASE \o daily
      [] key = weekly -> FREQ_BASE \o weekly
      [] key = monthly -> FREQ_BASE \o monthly
      [] key = yearly -> FREQ_BASE \o annual
      [] key = quarterly -> FREQ_BASE \o quarterly

\* a plausible slip: the lookup done on the text as given, not lower-cased and trimmed
normalize_frequency_raw(freq) ==
    IF notna(freq)
    THEN IF freq \in FreqTerms THEN freq_mapping(freq) ELSE lower(strip(freq))
    ELSE None

normalize_frequency(freq) ==
    IF notna(freq)
    THEN LET freq_lower == strip(lower(freq))
         IN  IF freq_lower \in FreqTerms THEN freq_mapping(freq_lower) ELSE freq_lower
    ELSE None

---------------------------------------------------------------------------
(* parse_date *)

\* strptime's %d: 3[0-1] | [1-2]\d | 0[1-9] | [1-9] | " "[1-9]
MatchesD(s) ==
    \/ Len(s) = 2 /\ s[1] = "3" /\ s[2] \in {"0", "1"}
    \/ Len(s) = 2 /\ s[1] \in {"1", "2"} /\ IsDigit(s[2])
    \/ Len(s) = 2 /\ s[1] \in {"0", " "} /\ IsDigit(s[2]) /\ s[2] # "0"
    \/ Len(s) = 1 /\ IsDigit(s[1]) /\ s[1] # "0"

\* strptime's %m: 1[0-2] | 0[1-9] | [1-9]
MatchesM(s) ==
    \/ Len(s) = 2 /\ s[1] = "1" /\ s[2] \in {"0", "1", "2"}
    \/ Len(s) = 2 /\ s[1] = "0" /\ IsDigit(s[2]) /\ s[2] # "0"
    \/ Len(s) = 1 /\ IsDigit(s[1]) /\ s[1] # "0"

\* strptime's %Y: \d\d\d\d
MatchesY(s) == Len(s) = 4 /\ \A i \in 1..4 : IsDigit(s[i])

IsLeap(y) == (y % 4 = 0 /\ y % 100 # 0) \/ y % 400 = 0

DaysInMonth(y, m) ==
    IF m = 2 THEN (IF IsLeap(y) THEN 29 ELSE 28)
    ELSE IF m \in {4, 6, 9, 11} THEN 30 ELSE 31

\* the date datetime accepts: MINYEAR <= year, and the day within the month
ValidDate(y, m, d) == y >= 1 /\ m \in 1..12 /\ d >= 1 /\ d <= DaysInMonth(y, m)

NoDate == [ok |-> FALSE, y |-> 0, m |-> 0, d |-> 0]

\* The three parts of a text, of which no format's directive matches the
\* separator, are what the format's regular expression can match: the text is
\* read whole, and what follows the last directive is "unconverted data".
DateOf(ys, ms, ds) ==
    IF MatchesY(ys) /\ MatchesM(ms) /\ MatchesD(ds)
    THEN LET y == DigitsValue(ys)
             m == DigitsValue(ms)
             d == DigitsValue(strip(ds))
         IN  IF ValidDate(y, m, d) THEN [ok |-> TRUE, y |-> y, m |-> m, d |-> d]
             ELSE NoDate
    ELSE NoDate

\* datetime.strptime(s, fmt) for the three formats parse_date tries; ok is
\* FALSE where strptime raises ValueError
strptime(s, fmt) ==
    LET sep == IF fmt = "%Y-%m-%d" THEN "-" ELSE "/"
        p == split(s, sep)
    IN  IF Len(p) # 3 THEN NoDate
        ELSE CASE fmt = "%d/%m/%Y" -> DateOf(p[3], p[2], p[1])
               [] fmt = "%Y-%m-%d" -> DateOf(p[1], p[2], p[3])
               [] fmt = "%m/%d/%Y" -> DateOf(p[3], p[1], p[2])

\* dt.strftime('%Y-%m-%d'): %m and %d are zero-padded to two digits; %Y is
\* what the C library's strftime gives, which pads a year below 1000 to four
\* digits on some builds and not on others
strftime(dt) ==
    (IF padYear THEN ZeroPad(NatStr(dt.y), 4) ELSE NatStr(dt.y))
        \o <<"-">> \o ZeroPad(NatStr(dt.m), 2)
        \o <<"-">> \o ZeroPad(NatStr(dt.d), 2)

\* the formats in the order of the loop
DateFormats == <<"%d/%m/%Y", "%Y-%m-%d", "%m/%d/%Y">>

\* the for loop over the formats, from format k on
RECURSIVE try_formats(_, _, _)
try_formats(s, fmts, k) ==
    IF k > Len(fmts) THEN s
    ELSE LET dt == strptime(s, fmts[k])
         IN  IF dt.ok THEN strftime(dt) ELSE try_formats(s, fmts, k + 1)

parse_date(date_str) ==
    IF isna(date_str) THEN None ELSE try_formats(date_str, DateFormats, 1)

---------------------------------------------------------------------------
(* Rows, RDF terms *)

Fields == {"node_alias", "title", "catalog_title", "note", "published_date",
           "changed", "created", "ministry_department", "state_department",
           "frequency", "sector", "datafile_url", "datafile", "file_format",
           "file_size"}

\* row.get(key): None for a column the table does not have
get(row, key) == IF key \in DOMAIN row THEN row[key] ELSE None

\* row.get(key, default)
get_default(row, key, default) == IF key \in DOMAIN row THEN row[key] ELSE default

URIRef(v) == [kind |-> "URIRef", value |-> v, datatype |-> "-"]
Literal(v) == [kind |-> "Literal", value |-> v, datatype |-> "-"]
TypedLiteral(v, dt) == [kind |-> "Literal", value |-> v, datatype |-> dt]

BASE == <<"h", "t", "t", "p", "s", ":", "/", "/", "d", "a", "t", "a", ".",
          "g", "o", "v", ".", "i", "n">>
DATASET_SEG == <<"/", "d", "a", "t", "a", "s", "e", "t", "/">>
DIST_API == <<"/", "d", "i", "s", "t", "r", "i", "b", "u", "t", "i", "o",
              "n", "/", "a", "p", "i">>
DIST_FILE == <<"/", "d", "i", "s", "t", "r", "i", "b", "u", "t", "i", "o",
               "n", "/", "f", "i", "l", "e">>
DCAT_Dataset == <<"h", "t", "t", "p", ":", "/", "/", "w", "w", "w", ".", "w",
                  "3", ".", "o", "r", "g", "/", "n", "s", "/", "d", "c", "a",
                  "t", "#", "D", "a", "t", "a", "s", "e", "t">>
DCAT_Distribution == <<"h", "t", "t", "p", ":", "/", "/", "w", "w", "w", ".",
                       "w", "3", ".", "o", "r", "g", "/", "n", "s", "/", "d",
                       "c", "a", "t", "#", "D", "i", "s", "t", "r", "i", "b",
                       "u", "t", "i", "o", "n">>
http == <<"h", "t", "t", "p">>
API == <<"A", "P", "I">>
File == <<"F", "i", "l", "e">>

---------------------------------------------------------------------------
(* get_publisher, get_description *)

get_publisher(row) ==
    IF notna(get(row, "ministry_department")) THEN row["ministry_department"]
    ELSE IF notna(get(row, "state_department")) THEN row["state_department"]
    ELSE None

get_description(row) ==
    IF notna(get(row, "catalog_title"))
    THEN IF notna(get(row, "note"))
         THEN row["catalog_title"] \o <<".", " ">> \o row["note"]
         ELSE row["catalog_title"]
    ELSE IF notna(get(row, "note")) THEN row["note"]
    ELSE None

---------------------------------------------------------------------------
(* The identifiers and the dataset-level triples of both builders *)

\* node_alias = row.get('node_alias', ''); the URI of the row's dataset
dataset_uri(row, i) ==
    LET node_alias == get_default(row, "node_alias", <<>>)
    IN  IF notna(node_alias) THEN BASE \o node_alias
        ELSE BASE \o DATASET_SEG \o NatStr(i)

\* the triple of a field added under "if value:" (a date, typed xsd:date)
DateTriple(uri, pred, value) ==
    IF Truthy(value) THEN {<<uri, pred, TypedLiteral(value, "xsd:date")>>} ELSE {}

TextTriple(uri, pred, value) ==
    IF Truthy(value) THEN {<<uri, pred, Literal(value)>>} ELSE {}

\* a plausible slip: every frequency emitted as a plain literal
FreqTripleLiteral(uri, freq) ==
    IF Truthy(freq) THEN {<<uri, "dct:accrualPeriodicity", Literal(freq)>>} ELSE {}

\* the accrual periodicity: a URIRef if the normalized text starts with 'http'
FreqTriple(uri, freq) ==
    IF Truthy(freq)
    THEN IF startswith(freq, http)
         THEN {<<uri, "dct:accrualPeriodicity", URIRef(freq)>>}
         ELSE {<<uri, "dct:accrualPeriodicity", Literal(freq)>>}
    ELSE {}

\* one triple per token of the sector, split at ';' and trimmed
SectorTriples(uri, pred, row) ==
    IF notna(get(row, "sector"))
    THEN LET sectors == split(row["sector"], ";")
         IN  {<<uri, pred, Literal(strip(sectors[k]))>> : k \in 1..Len(sectors)}
    ELSE {}

TitleTriple(uri, row) ==
    IF notna(get(row, "title")) THEN {<<uri, "dct:title", Literal(row["title"])>>}
    ELSE {}

LandingTriple(uri, row) ==
    LET node_alias == get_default(row, "node_alias", <<>>)
    IN  IF notna(node_alias)
        THEN {<<uri, "dcat:landingPage", URIRef(BASE \o node_alias)>>}
        ELSE {}

---------------------------------------------------------------------------
(* create_dublin_core_graph: one pass of the loop body *)

\* the triples the loop body adds for a row
dublin_core_triples(row, i) ==
    LET uri == dataset_uri(row, i)
    IN  TitleTriple(uri, row)
        \cup TextTriple(uri, "dct:description", get_description(row))
        \cup DateTriple(uri, "dct:issued", parse_date(get(row, "published_date")))
        \cup DateTriple(uri, "dct:modified", parse_date(get(row, "changed")))
        \cup DateTriple(uri, "dct:created", parse_date(get(row, "created")))
        \cup TextTriple(uri, "dct:publisher", get_publisher(row))
        \cup FreqTriple(uri, normalize_frequency(get(row, "frequency")))
        \cup SectorTriples(uri, "dct:subject", row)
        \cup LandingTriple(uri, row)

\* the flat record the loop body appends for a row
dublin_core_record(row, i) ==
    LET node_alias == get_default(row, "node_alias", <<>>)
    IN  [dataset_uri |-> dataset_uri(row, i),
         title |-> get(row, "title"),
         description |-> get_description(row),
         issued |-> parse_date(get(row, "published_date")),
         modified |-> parse_date(get(row, "changed")),
         created |-> parse_date(get(row, "created")),
         publisher |-> get_publisher(row),
         accrualPeriodicity |-> normalize_frequency(get(row, "frequency")),
         subject |-> get(row, "sector"),
         landingPage |-> IF notna(node_alias) THEN BASE \o node_alias ELSE None]

---------------------------------------------------------------------------
(* create_dcat_graph: one pass of the loop body *)

\* int(text): the text trimmed must be decimal digits, else ValueError
IntParses(s) == strip(s) # <<>> /\ \A k \in 1..Len(strip(s)) : IsDigit(strip(s)[k])

\* the format and the size of a distribution
DistAnnotations(dist_uri, row) ==
    (IF notna(get(row, "file_format"))
     THEN {<<dist_uri, "dct:format", Literal(row["file_format"])>>,
           <<dist_uri, "dcat:mediaType", Literal(row["file_format"])>>}
     ELSE {})
    \cup
    (IF notna(get(row, "file_size")) /\ IntParses(row["file_size"])
     THEN {<<dist_uri, "dcat:byteSize",
             TypedLiteral(NatStr(DigitsValue(strip(row["file_size"]))), "xsd:integer")>>}
     ELSE {})

\* a plausible slip: the file distribution given the API distribution's suffix
file_dist_uri_same(uri) == uri \o DIST_API

api_dist_uri(uri) == uri \o DIST_API

file_dist_uri(uri) == uri \o DIST_FILE

\* the API distribution (datafile_url)
ApiTriples(uri, row) ==
    IF notna(get(row, "datafile_url"))
    THEN LET dist_uri == api_dist_uri(uri)
         IN  {<<dist_uri, "rdf:type", URIRef(DCAT_Distribution)>>,
              <<uri, "dcat:distribution", URIRef(dist_uri)>>,
              <<dist_uri, "dcat:accessURL", URIRef(row["datafile_url"])>>}
             \cup DistAnnotations(dist_uri, row)
    ELSE {}

\* the file download distribution (datafile)
FileTriples(uri, row) ==
    IF notna(get(row, "datafile"))
    THEN LET dist_uri == file_dist_uri(uri)
         IN  {<<dist_uri, "rdf:type", URIRef(DCAT_Distribution)>>,
              <<uri, "dcat:distribution", URIRef(dist_uri)>>,
              <<dist_uri, "dcat:downloadURL", URIRef(row["datafile"])>>}
             \cup DistAnnotations(dist_uri, row)
    ELSE {}

\* a plausible slip: the type assertion made only for a dataset with a distribution
DatasetTypeTripleIfDist(uri, row) ==
    IF notna(get(row, "datafile_url")) \/ notna(get(row, "datafile"))
    THEN {<<uri, "rdf:type", URIRef(DCAT_Dataset)>>}
    ELSE {}

DatasetTypeTriple(uri, row) == {<<uri, "rdf:type", URIRef(DCAT_Dataset)>>}

\* the triples the loop body adds for a row; no dct:created among them
dcat_triples(row, i) ==
    LET uri == dataset_uri(row, i)
    IN  DatasetTypeTriple(uri, row)
        \cup TitleTriple(uri, row)
        \cup TextTriple(uri, "dct:description", get_description(row))
        \cup DateTriple(uri, "dct:issued", parse_date(get(row, "published_date")))
        \cup DateTriple(uri, "dct:modified", parse_date(get(row, "changed")))
        \cup TextTriple(uri, "dct:publisher", get_publisher(row))
        \cup FreqTriple(uri, normalize_frequency(get(row, "frequency")))
        \cup SectorTriples(uri, "dcat:theme", row)
        \cup LandingTriple(uri, row)
        \cup ApiTriples(uri, row)
        \cup FileTriples(uri, row)

dcat_record(uri, dist_uri, type, access, download, row) ==
    [dataset_uri |-> uri,
     distribution_uri |-> dist_uri,
     distribution_type |-> type,
     accessURL |-> access,
     downloadURL |-> download,
     format |-> get(row, "file_format"),
     byteSize |-> get(row, "file_size"),
     title |-> get(row, "title")]

\* a plausible slip: the file record left out when the API record is there
dcat_records_one(row, i) ==
    LET uri == dataset_uri(row, i)
    IN  IF notna(get(row, "datafile_url"))
        THEN <<dcat_record(uri, api_dist_uri(uri), API, row["datafile_url"], None, row)>>
        ELSE IF notna(get(row, "datafile"))
        THEN <<dcat_record(uri, file_dist_uri(uri), File, None, row["datafile"], row)>>
        ELSE <<>>

\* the flat records the loop body appends for a row, in order
dcat_records(row, i) ==
    LET uri == dataset_uri(row, i)
    IN  (IF notna(get(row, "datafile_url"))
         THEN <<dcat_record(uri, api_dist_uri(uri), API, row["datafile_url"], None, row)>>
         ELSE <<>>)
        \o
        (IF notna(get(row, "datafile"))
         THEN <<dcat_record(uri, file_dist_uri(uri), File, None, row["datafile"], row)>>
         ELSE <<>>)

---------------------------------------------------------------------------
(* The tables parse_csv may return *)

\* the most rows a table has
MaxRows == 2

\* the cells of the distribution columns
NoDist == [datafile_url |-> NaN, datafile |-> NaN, file_format |-> NaN,
           file_size |-> NaN]
ApiDist == [NoDist EXCEPT !.datafile_url = <<"u">>, !.file_format = <<"c", "s", "v">>]
FileDist == [NoDist EXCEPT !.datafile = <<"f">>, !.file_size = <<"1", "0", "2", "4">>]
BothDist == [datafile_url |-> <<"u">>, datafile |-> <<"f">>,
             file_format |-> <<"c", "s", "v">>, file_size |-> <<"0", "7", " ">>]
BothDistBadSize == [BothDist EXCEPT !.file_size = <<"b", "i", "g">>]

\* the cells of the descriptive columns
NoFields == [title |-> NaN, catalog_title |-> NaN, note |-> NaN,
             published_date |-> NaN, changed |-> NaN, created |-> NaN,
             ministry_department |-> NaN, state_department |-> NaN,
             frequency |-> NaN, sector |-> NaN]
FullFields == [title |-> <<"T">>, catalog_title |-> <<"C">>, note |-> <<"N">>,
               published_date |-> <<"0", "3", "/", "0", "4", "/", "2", "0", "2", "0">>,
               changed |-> <<"2", "0", "2", "0", "-", "0", "4", "-", "0", "3">>,
               created |-> <<"1", "2", "/", "2", "5", "/", "2", "0", "2", "0">>,
               ministry_department |-> <<"M">>, state_department |-> <<"S">>,
               frequency |-> <<"W", "e", "e", "k", "l", "y", " ">>,
               sector |-> <<"x", ";", " ", "y">>]
FallbackFields == [NoFields EXCEPT !.note = <<"N">>, !.state_department = <<"S">>,
                   !.changed = <<"n", "/", "a">>,
                   !.frequency = <<"f", "o", "r", "t", "n", "i", "g", "h", "t", "l", "y">>]
FreeTextFields == [NoFields EXCEPT !.title = <<"T">>, !.catalog_title = <<"C">>,
                   !.ministry_department = <<"M">>,
                   !.created = <<"0", "1", "/", "0", "2", "/", "0", "9", "9", "9">>,
                   !.frequency = <<"H", "T", "T", "P", " ", "x">>]
BlankFields == [NoFields EXCEPT !.frequency = <<" ", " ">>, !.sector = <<"x">>]

\* the cells of node_alias
AliasValues == {NaN, <<"/", "a">>, <<"/", "b">>}

\* the distribution and descriptive cells that go together in a row
RowContents == {<<NoDist, NoFields>>, <<NoDist, FullFields>>,
                <<ApiDist, FallbackFields>>, <<FileDist, FreeTextFields>>,
                <<BothDist, NoFields>>, <<BothDistBadSize, BlankFields>>}

MkRow(alias, content) ==
    [f \in Fields |->
        IF f = "node_alias" THEN alias
        ELSE IF f \in DOMAIN content[1] THEN content[1][f] ELSE content[2][f]]

Rows == {MkRow(a, c) : a \in AliasValues, c \in RowContents}

\* the columns a table may have: all of them, or all but node_alias
ColumnSets == {Fields, Fields \ {"node_alias"}}

Restrict(row, cols) == [f \in cols |-> row[f]]

Tables ==
    UNION {UNION {[1..n -> {Restrict(r, cols) : r \in Rows}] : n \in 0..MaxRows}
           : cols \in ColumnSets}

\* df is None, and df before main assigns it
NoTable == [ok |-> FALSE, rows |-> <<>>]

---------------------------------------------------------------------------
(* main *)

OutputFiles == {"output/dublin.ttl", "output/dublin.csv",
                "output/dcat.ttl", "output/dcat.csv"}

Init ==
    /\ pc = "makedirs"
    /\ padYear \in BOOLEAN
    /\ df = NoTable
    /\ idx = 0
    /\ dc_g = {}
    /\ dublin_data = <<>>
    /\ dcat_g = {}
    /\ dcat_data = <<>>
    /\ files = {}
    /\ arg = None
    /\ ret = None

\* os.makedirs('output', exist_ok=True)
main_makedirs ==
    /\ pc = "makedirs"
    /\ pc' = "parse_csv"
    /\ UNCHANGED <<padYear, df, idx, dc_g, dublin_data, dcat_g, dcat_data, files, arg, ret>>

\* parse_csv: pd.read_csv returns the table
parse_csv_ok ==
    /\ pc = "parse_csv"
    /\ \E t \in Tables : df' = [ok |-> TRUE, rows |-> t]
    /\ pc' = "check_df"
    /\ UNCHANGED <<padYear, idx, dc_g, dublin_data, dcat_g, dcat_data, files, arg, ret>>

\* parse_csv: pd.read_csv raises, and parse_csv returns None
parse_csv_error ==
    /\ pc = "parse_csv"
    /\ df' = NoTable
    /\ pc' = "check_df"
    /\ UNCHANGED <<padYear, idx, dc_g, dublin_data, dcat_g, dcat_data, files, arg, ret>>

\* a plausible slip: the None check left out, the run going on with no rows
after_check_df_unchecked(table) == "dublin_loop"

\* if df is None: return
after_check_df(table) == IF table.ok THEN "dublin_loop" ELSE "returned"

main_check_df ==
    /\ pc = "check_df"
    /\ pc' = after_check_df(df)
    /\ UNCHANGED <<padYear, df, idx, dc_g, dublin_data, dcat_g, dcat_data, files, arg, ret>>

\* create_dublin_core_graph: the loop body, for row idx
dublin_core_row ==
    /\ pc = "dublin_loop"
    /\ idx < Len(df.rows)
    /\ dc_g' = dc_g \cup dublin_core_triples(df.rows[idx + 1], idx)
    /\ dublin_data' = Append(dublin_data, dublin_core_record(df.rows[idx + 1], idx))
    /\ idx' = idx + 1
    /\ UNCHANGED <<pc, padYear, df, dcat_g, dcat_data, files, arg, ret>>

\* create_dublin_core_graph returns
dublin_core_return ==
    /\ pc = "dublin_loop"
    /\ idx = Len(df.rows)
    /\ pc' = "dublin_ttl"
    /\ idx' = 0
    /\ UNCHANGED <<padYear, df, dc_g, dublin_data, dcat_g, dcat_data, files, arg, ret>>

\* dc_graph.serialize(destination='output/dublin.ttl', format='turtle')
write_dublin_ttl ==
    /\ pc = "dublin_ttl"
    /\ files' = files \cup {"output/dublin.ttl"}
    /\ pc' = "dublin_csv"
    /\ UNCHANGED <<padYear, df, idx, dc_g, dublin_data, dcat_g, dcat_data, arg, ret>>

\* dc_df.to_csv('output/dublin.csv', index=False)
write_dublin_csv ==
    /\ pc = "dublin_csv"
    /\ files' = files \cup {"output/dublin.csv"}
    /\ pc' = "dcat_loop"
    /\ UNCHANGED <<padYear, df, idx, dc_g, dublin_data, dcat_g, dcat_data, arg, ret>>

\* create_dcat_graph: the loop body, for row idx
dcat_row ==
    /\ pc = "dcat_loop"
    /\ idx < Len(df.rows)
    /\ dcat_g' = dcat_g \cup dcat_triples(df.rows[idx + 1], idx)
    /\ dcat_data' = dcat_data \o dcat_records(df.rows[idx + 1], idx)
    /\ idx' = idx + 1
    /\ UNCHANGED <<pc, padYear, df, dc_g, dublin_data, files, arg, ret>>

\* create_dcat_graph returns
dcat_return ==
    /\ pc = "dcat_loop"
    /\ idx = Len(df.rows)
    /\ pc' = "dcat_ttl"
    /\ UNCHANGED <<padYear, df, idx, dc_g, dublin_data, dcat_g, dcat_data, files, arg, ret>>

\* dcat_graph.serialize(destination='output/dcat.ttl', format='turtle')
write_dcat_ttl ==
    /\ pc = "dcat_ttl"
    /\ files' = files \cup {"output/dcat.ttl"}
    /\ pc' = "dcat_csv"
    /\ UNCHANGED <<padYear, df, idx, dc_g, dublin_data, dcat_g, dcat_data, arg, ret>>

\* dcat_df.to_csv('output/dcat.csv', index=False), and main returns
write_dcat_csv ==
    /\ pc = "dcat_csv"
    /\ files' = files \cup {"output/dcat.csv"}
    /\ pc' = "returned"
    /\ UNCHANGED <<padYear, df, idx, dc_g, dublin_data, dcat_g, dcat_data, arg, ret>>

Next ==
    \/ main_makedirs
    \/ parse_csv_ok
    \/ parse_csv_error
    \/ main_check_df
    \/ dublin_core_row
    \/ dublin_core_return
    \/ write_dublin_ttl
    \/ write_dublin_csv
    \/ dcat_row
    \/ dcat_return
    \/ write_dcat_ttl
    \/ write_dcat_csv

Spec == Init /\ [][Next]_vars

---------------------------------------------------------------------------
(* parse_date alone, on texts built of three parts and two separators *)

DateParts == {<<"3">>, <<" ", "3">>, <<"0", "3">>, <<"0", "4">>, <<"0", "2">>,
              <<"1", "2">>, <<"1", "3">>, <<"2", "9">>, <<"3", "1">>, <<"0", "0">>,
              <<"2", "0", "2", "0">>, <<"2", "0", "2", "1">>, <<"1", "9", "0", "0">>,
              <<"0", "9", "9", "9">>, <<"0", "0", "0", "0">>}

DateSeparators == {"/", "-"}

not_a_date == <<"n", "o", "t", "-", "a", "-", "d", "a", "t", "e">>

DateInputs ==
    {a \o <<s1>> \o b \o <<s2>> \o c \o t :
        a \in DateParts, b \in DateParts, c \in DateParts,
        s1 \in DateSeparators, s2 \in DateSeparators, t \in {<<>>, <<" ">>}}
    \cup {not_a_date, <<>>, NaN, None}

InitDate ==
    /\ pc = "call_parse_date"
    /\ padYear \in BOOLEAN
    /\ arg \in DateInputs
    /\ ret = None
    /\ df = NoTable
    /\ idx = 0
    /\ dc_g = {}
    /\ dublin_data = <<>>
    /\ dcat_g = {}
    /\ dcat_data = <<>>
    /\ files = {}

call_parse_date ==
    /\ pc = "call_parse_date"
    /\ ret' = parse_date(arg)
    /\ pc' = "returned"
    /\ UNCHANGED <<padYear, df, idx, dc_g, dublin_data, dcat_g, dcat_data, files, arg>>

NextDate == call_parse_date

SpecDate == InitDate /\ [][NextDate]_vars

---------------------------------------------------------------------------
(* normalize_frequency alone, on words in upper and lower case between blanks *)

\* the most blanks before and after a word
MaxPad == 2

UpperChar(c) ==
    IF \E i \in 1..26 : LOWER[i] = c
    THEN UPPER[CHOOSE i \in 1..26 : LOWER[i] = c]
    ELSE c

fortnightly == <<"f", "o", "r", "t", "n", "i", "g", "h", "t", "l", "y">>

FreqWords == FreqTerms \cup {annual, fortnightly, http, <<>>,
                             <<"w", "e", "e", "k", " ", "l", "y">>,
                             <<"d", "a", "i", "l", "y", "x">>}

\* a word with the characters at the places in caps in upper case
InCase(w, caps) == [i \in 1..Len(w) |-> IF i \in caps THEN UpperChar(w[i]) ELSE w[i]]

\* a word as it is, with one character in upper case, and all in upper case
CaseVariants(w) ==
    {InCase(w, {})} \cup {InCase(w, {k}) : k \in 1..Len(w)} \cup {InCase(w, 1..Len(w))}

Blanks(n) == [i \in 1..n |-> " "]

FreqInputs ==
    {Blanks(l) \o v \o Blanks(r) :
        l \in 0..MaxPad, r \in 0..MaxPad, v \in UNION {CaseVariants(w) : w \in FreqWords}}
    \cup {<<"\t">> \o weekly \o <<"\t">>, NaN, None}

InitFreq ==
    /\ pc = "call_normalize_frequency"
    /\ padYear \in BOOLEAN
    /\ arg \in FreqInputs
    /\ ret = None
    /\ df = NoTable
    /\ idx = 0
    /\ dc_g = {}
    /\ dublin_data = <<>>
    /\ dcat_g = {}
    /\ dcat_data = <<>>
    /\ files = {}

call_normalize_frequency ==
    /\ pc = "call_normalize_frequency"
    /\ ret' = normalize_frequency(arg)
    /\ pc' = "returned"
    /\ UNCHANGED <<padYear, df, idx, dc_g, dublin_data, dcat_g, dcat_data, files, arg>>

NextFreq == call_normalize_frequency

SpecFreq == InitFreq /\ [][NextFreq]_vars

---------------------------------------------------------------------------
(* What the properties below speak of *)

\* a step of a builder's loop: the body run for row idx
InDublinRow == pc = "dublin_loop" /\ idx' = idx + 1
InDcatRow == pc = "dcat_loop" /\ idx' = idx + 1

\* the rows create_dcat_graph has processed
DcatProcessed == IF pc \in {"dcat_loop", "dcat_ttl", "dcat_csv", "returned"} THEN idx ELSE 0

\* create_dcat_graph has returned
DcatBuilt == df.ok /\ pc \in {"dcat_ttl", "dcat_csv", "returned"}

HasApi(row) == notna(get(row, "datafile_url"))
HasFile(row) == notna(get(row, "datafile"))

\* the resources a graph types as Distribution
Distributions(g) ==
    {t[1] : t \in {u \in g : u[2] = "rdf:type" /\ u[3] = URIRef(DCAT_Distribution)}}

\* the predicates that describe a distribution
DistributionPredicates == {"dcat:distribution", "dcat:accessURL", "dcat:downloadURL",
                           "dct:format", "dcat:mediaType", "dcat:byteSize"}

\* the URI the identifier rule gives a row: the alias if present, else the index
ClaimedUri(row, i) ==
    IF notna(get(row, "node_alias")) THEN BASE \o row["node_alias"]
    ELSE BASE \o DATASET_SEG \o NatStr(i)

---------------------------------------------------------------------------
(* C1 *)

\* C1: in both builders every row's dataset URI is 'https://data.gov.in' and
\* the alias when node_alias is present, and 'https://data.gov.in/dataset/'
\* and the row's index when the value is null or the table has no such column.
\* Fails: with no node_alias column row.get('node_alias', '') is '', which is
\* not null, and every row's URI is 'https://data.gov.in'.
C1_DatasetUri ==
    /\ \A i \in 1..Len(dublin_data) :
           dublin_data[i].dataset_uri = ClaimedUri(df.rows[i], i - 1)
    /\ \A i \in 1..DcatProcessed :
           <<ClaimedUri(df.rows[i], i - 1), "rdf:type", URIRef(DCAT_Dataset)>> \in dcat_g

\* C1, for the tables that have the node_alias column: there the rule holds
C1_WithAliasColumn ==
    (\A i \in 1..Len(df.rows) : "node_alias" \in DOMAIN df.rows[i]) => C1_DatasetUri

---------------------------------------------------------------------------
(* C2 *)

\* C2: a row with both datafile_url and datafile appends exactly two flat
\* records, the first of kind 'API' with URI dataset URI + '/distribution/api',
\* the second of kind 'File' with URI dataset URI + '/distribution/file'; the
\* two URIs differ, both are typed Distribution, and they are exactly what the
\* dataset's distribution triples link to.
C2_BothDistributions ==
    [][(InDcatRow /\ HasApi(df.rows[idx + 1]) /\ HasFile(df.rows[idx + 1])) =>
        LET uri == dataset_uri(df.rows[idx + 1], idx)
            n == Len(dcat_data)
        IN  /\ Len(dcat_data') = n + 2
            /\ SubSeq(dcat_data', 1, n) = dcat_data
            /\ dcat_data'[n + 1].dataset_uri = uri
            /\ dcat_data'[n + 1].distribution_type = <<"A", "P", "I">>
            /\ dcat_data'[n + 1].distribution_uri = uri \o DIST_API
            /\ dcat_data'[n + 2].dataset_uri = uri
            /\ dcat_data'[n + 2].distribution_type = <<"F", "i", "l", "e">>
            /\ dcat_data'[n + 2].distribution_uri = uri \o DIST_FILE
            /\ dcat_data'[n + 1].distribution_uri # dcat_data'[n + 2].distribution_uri
            /\ {uri \o DIST_API, uri \o DIST_FILE} \subseteq Distributions(dcat_g')
            /\ {t[3] : t \in {u \in dcat_g' : u[1] = uri /\ u[2] = "dcat:distribution"}}
                   = {URIRef(uri \o DIST_API), URIRef(uri \o DIST_FILE)}
      ]_vars

\* a row with both fields has been processed, and its two records are there
C2_Witness ==
    \E i \in 1..DcatProcessed :
        /\ HasApi(df.rows[i]) /\ HasFile(df.rows[i])
        /\ \E j \in 1..(Len(dcat_data) - 1) :
               /\ dcat_data[j].distribution_type = API
               /\ dcat_data[j + 1].distribution_type = File
               /\ dcat_data[j].dataset_uri = dataset_uri(df.rows[i], i - 1)

---------------------------------------------------------------------------
(* C3 *)

\* C3: a row with neither datafile_url nor datafile appends no flat record
\* and adds no triple of a distribution, and the graph then holds exactly one
\* (dataset URI, rdf:type, dcat:Dataset) triple for the row's dataset URI.
C3_NoDistribution ==
    [][(InDcatRow /\ ~HasApi(df.rows[idx + 1]) /\ ~HasFile(df.rows[idx + 1])) =>
        LET uri == dataset_uri(df.rows[idx + 1], idx)
            added == dcat_g' \ dcat_g
        IN  /\ dcat_data' = dcat_data
            /\ \A t \in added :
                   /\ t[2] \notin DistributionPredicates
                   /\ t[3] # URIRef(DCAT_Distribution)
            /\ Cardinality({t \in dcat_g' :
                   t[1] = uri /\ t[2] = "rdf:type" /\ t[3] = URIRef(DCAT_Dataset)}) = 1
      ]_vars

\* a row without distributions has been processed: no record, but the type triple
C3_Witness ==
    /\ DcatProcessed = 1
    /\ ~HasApi(df.rows[1]) /\ ~HasFile(df.rows[1])
    /\ dcat_data = <<>>
    /\ <<dataset_uri(df.rows[1], 0), "rdf:type", URIRef(DCAT_Dataset)>> \in dcat_g

---------------------------------------------------------------------------
(* C4 *)

\* the predicates of title, description, the dates, publisher, frequency and
\* landing page
SharedPredicates == {"dct:title", "dct:description", "dct:issued", "dct:modified",
                     "dct:created", "dct:publisher", "dct:accrualPeriodicity",
                     "dcat:landingPage"}

\* C4: every dataset-level triple create_dublin_core_graph emits for title,
\* description, issued, modified, created, publisher, frequency or landing
\* page is also emitted by create_dcat_graph on the same rows.
\* Fails: create_dcat_graph has no dct:created.
C4_DcatSuperset ==
    DcatBuilt => \A t \in dc_g : t[2] \in SharedPredicates => t \in dcat_g

\* C4 without the created date: for the other fields the two builders agree
C4_ExceptCreated ==
    DcatBuilt =>
        \A t \in dc_g : t[2] \in SharedPredicates \ {"dct:created"} => t \in dcat_g

---------------------------------------------------------------------------
(* C5 *)

\* the distribution fields present in the rows create_dcat_graph has processed
PresentDistributions ==
    {<<i, "api">> : i \in {k \in 1..DcatProcessed : HasApi(df.rows[k])}}
    \cup {<<i, "file">> : i \in {k \in 1..DcatProcessed : HasFile(df.rows[k])}}

\* the processed rows that have a distribution have dataset URIs of their own
DistinctDatasetUris ==
    \A i, j \in {k \in 1..DcatProcessed : HasApi(df.rows[k]) \/ HasFile(df.rows[k])} :
        i # j => dataset_uri(df.rows[i], i - 1) # dataset_uri(df.rows[j], j - 1)

\* the DCAT flat records are as many as the resources the DCAT graph types
\* Distribution, and no two of them share a distribution_uri
C5_RecordPerDistribution ==
    /\ Len(dcat_data) = Cardinality(Distributions(dcat_g))
    /\ \A i, j \in 1..Len(dcat_data) :
           i # j => dcat_data[i].distribution_uri # dcat_data[j].distribution_uri

\* C5 on the tables that have the node_alias column, where no row's URI is
\* the bare 'https://data.gov.in' of C1: the DCAT flat records are as many as
\* the resources the DCAT graph types Distribution, and no two of them share
\* a distribution_uri.
\* Fails all the same: two rows with the node_alias '/a' and a datafile_url
\* each give two records of one distribution_uri and one resource.
C5_RecordPerDistributionWithAlias ==
    (\A i \in 1..Len(df.rows) : "node_alias" \in DOMAIN df.rows[i])
        => C5_RecordPerDistribution

\* C5 as amended: there is one flat record per processed row and distribution
\* field present in it; the distribution_uris of the records are exactly the
\* resources the graph types Distribution; and where the processed rows that
\* have a distribution have pairwise distinct dataset URIs, the records are as
\* many as those resources and no two share a distribution_uri.
C5_RecordPerRowDistribution ==
    /\ Len(dcat_data) = Cardinality(PresentDistributions)
    /\ {dcat_data[j].distribution_uri : j \in 1..Len(dcat_data)} = Distributions(dcat_g)
    /\ DistinctDatasetUris => C5_RecordPerDistribution

\* two rows of distinct dataset URIs have been processed, three records or more
C5_Witness ==
    /\ DcatProcessed = 2
    /\ DistinctDatasetUris
    /\ Len(dcat_data) >= 3
    /\ Cardinality(Distributions(dcat_g)) = Len(dcat_data)

---------------------------------------------------------------------------
(* C6 *)

\* C6: no output file is written unless the table has been read, and without
\* a table main is in no builder and at no write, so when parse_csv returns
\* None main returns with none of the four files written.
C6_NoOutputWithoutInput ==
    /\ files \subseteq OutputFiles
    /\ ~df.ok => files = {}
    /\ ~df.ok => pc \in {"makedirs", "parse_csv", "check_df", "returned"}

\* main has returned on a failed read, no file written
C6_Witness == pc = "returned" /\ ~df.ok /\ files = {}

---------------------------------------------------------------------------
(* C7 *)

\* the fields of the Dublin Core record, each with its predicate and the
\* columns it is taken from
DublinFields ==
    {[cell |-> "title", pred |-> "dct:title", from |-> {"title"}],
     [cell |-> "description", pred |-> "dct:description", from |-> {"catalog_title", "note"}],
     [cell |-> "issued", pred |-> "dct:issued", from |-> {"published_date"}],
     [cell |-> "modified", pred |-> "dct:modified", from |-> {"changed"}],
     [cell |-> "created", pred |-> "dct:created", from |-> {"created"}],
     [cell |-> "publisher", pred |-> "dct:publisher",
      from |-> {"ministry_department", "state_department"}],
     [cell |-> "accrualPeriodicity", pred |-> "dct:accrualPeriodicity", from |-> {"frequency"}],
     [cell |-> "subject", pred |-> "dct:subject", from |-> {"sector"}],
     [cell |-> "landingPage", pred |-> "dcat:landingPage", from |-> {"node_alias"}]}

\* a field's source and fallback are absent: null, or no such column
Absent(row, fld) == \A c \in fld.from : isna(get(row, c))

\* in a step of create_dublin_core_graph's loop, an absent field of the set
\* adds no triple of its predicate for the row's dataset URI, and its cell of
\* the appended record is null
AbsentOmitted(flds) ==
    InDublinRow =>
        \A fld \in flds :
            Absent(df.rows[idx + 1], fld) =>
                /\ \A t \in dc_g' \ dc_g :
                       ~(t[1] = dataset_uri(df.rows[idx + 1], idx) /\ t[2] = fld.pred)
                /\ isna(dublin_data'[Len(dublin_data')][fld.cell])

\* C7: in create_dublin_core_graph, a field (title, description, issued,
\* modified, created, publisher, accrualPeriodicity, subject, landingPage)
\* whose source and fallback are absent from the row adds no triple of its
\* predicate for the row's dataset URI and leaves a null cell in the record.
\* Fails for landingPage: with no node_alias column the default '' is not
\* null, and the landing page 'https://data.gov.in' is emitted.
C7_AbsentOmitted == [][AbsentOmitted(DublinFields)]_vars

\* C7 for the fields other than landingPage, and for landingPage too in a
\* table that has the node_alias column
C7_ApartFromMissingAlias ==
    [][/\ AbsentOmitted({fld \in DublinFields : fld.cell # "landingPage"})
       /\ (\A i \in 1..Len(df.rows) : "node_alias" \in DOMAIN df.rows[i])
              => AbsentOmitted(DublinFields)
      ]_vars

---------------------------------------------------------------------------
(* C8 *)

\* the ISO form of a date: the year in four digits, month and day in two
IsoForm(dt) ==
    ZeroPad(NatStr(dt.y), 4) \o <<"-">> \o ZeroPad(NatStr(dt.m), 2)
        \o <<"-">> \o ZeroPad(NatStr(dt.d), 2)

\* what C8 says parse_date returns for a present text
ClaimedDate(s) ==
    IF strptime(s, "%d/%m/%Y").ok THEN IsoForm(strptime(s, "%d/%m/%Y"))
    ELSE IF strptime(s, "%Y-%m-%d").ok THEN IsoForm(strptime(s, "%Y-%m-%d"))
    ELSE IF strptime(s, "%m/%d/%Y").ok THEN IsoForm(strptime(s, "%m/%d/%Y"))
    ELSE s

\* a text that is a date in ISO form already
IsIsoDate(s) == strptime(s, "%Y-%m-%d").ok /\ Len(s) = 10 /\ s[6] # " " /\ s[9] # " "

\* the year of the date a text parses to, by the first format that parses; 9999 if none
ParsedYear(s) ==
    IF strptime(s, "%d/%m/%Y").ok THEN strptime(s, "%d/%m/%Y").y
    ELSE IF strptime(s, "%Y-%m-%d").ok THEN strptime(s, "%Y-%m-%d").y
    ELSE IF strptime(s, "%m/%d/%Y").ok THEN strptime(s, "%m/%d/%Y").y
    ELSE 9999

\* C8: parse_date gives absent for an absent value; for a present value the
\* first of day/month/year, year-month-day, month/day/year that parses
\* decides, and the result is that date in ISO year-month-day form, so a
\* value in ISO form already comes back unchanged; a value no format parses
\* comes back unmodified.
\* Fails: strftime('%Y') does not zero-pad a year below 1000 on every build,
\* and '0999-01-01' comes back as '999-01-01'.
C8_ParseDate ==
    pc = "returned" =>
        /\ isna(arg) => ret = None
        /\ notna(arg) => ret = ClaimedDate(arg)
        /\ notna(arg) /\ IsIsoDate(arg) => ret = arg

\* C8 for the years from 1000 on, and on a build that pads the year
C8_FromYear1000 ==
    (pc = "returned" /\ notna(arg) /\ (padYear \/ ParsedYear(arg) >= 1000)) =>
        /\ ret = ClaimedDate(arg)
        /\ IsIsoDate(arg) => ret = arg

\* C8's examples: day-first for the ambiguous text, ISO unchanged, junk verbatim
C8_Examples ==
    pc = "returned" =>
        /\ arg = <<"0", "3", "/", "0", "4", "/", "2", "0", "2", "0">>
               => ret = <<"2", "0", "2", "0", "-", "0", "4", "-", "0", "3">>
        /\ arg = <<"2", "0", "2", "0", "-", "0", "4", "-", "0", "3">> => ret = arg
        /\ arg = <<"1", "2", "/", "3", "1", "/", "2", "0", "2", "0">>
               => ret = <<"2", "0", "2", "0", "-", "1", "2", "-", "3", "1">>
        /\ arg = not_a_date => ret = not_a_date

---------------------------------------------------------------------------
(* C9 *)

\* t is s without the whitespace at its two ends
IsTrimOf(t, s) ==
    \E l \in 0..Len(s) : \E r \in 0..(Len(s) - l) :
        /\ t = SubSeq(s, l + 1, Len(s) - r)
        /\ \A k \in 1..l : s[k] \in Whitespace
        /\ \A k \in (Len(s) - r + 1)..Len(s) : s[k] \in Whitespace
        /\ t # <<>> => t[1] \notin Whitespace /\ t[Len(t)] \notin Whitespace

\* t is s with its upper-case letters in lower case
IsLowerOf(t, s) ==
    /\ Len(t) = Len(s)
    /\ \A k \in 1..Len(s) :
           IF \E i \in 1..26 : s[k] = UPPER[i]
           THEN \E i \in 1..26 : s[k] = UPPER[i] /\ t[k] = LOWER[i]
           ELSE t[k] = s[k]

\* the canonical URI of a controlled-vocabulary term, written out
CanonicalFrequency(term) ==
    CASE term = <<"d", "a", "i", "l", "y">> ->
             <<"h", "t", "t", "p", ":", "/", "/", "p", "u", "r", "l", ".", "o", "r", "g",
               "/", "c", "l", "d", "/", "f", "r", "e", "q", "/", "d", "a", "i", "l", "y">>
      [] term = <<"w", "e", "e", "k", "l", "y">> ->
             <<"h", "t", "t", "p", ":", "/", "/", "p", "u", "r", "l", ".", "o", "r", "g",
               "/", "c", "l", "d", "/", "f", "r", "e", "q", "/", "w", "e", "e", "k", "l", "y">>
      [] term = <<"m", "o", "n", "t", "h", "l", "y">> ->
             <<"h", "t", "t", "p", ":", "/", "/", "p", "u", "r", "l", ".", "o", "r", "g",
               "/", "c", "l", "d", "/", "f", "r", "e", "q", "/", "m", "o", "n", "t", "h", "l", "y">>
      [] term = <<"y", "e", "a", "r", "l", "y">> ->
             <<"h", "t", "t", "p", ":", "/", "/", "p", "u", "r", "l", ".", "o", "r", "g",
               "/", "c", "l", "d", "/", "f", "r", "e", "q", "/", "a", "n", "n", "u", "a", "l">>
      [] term = <<"q", "u", "a", "r", "t", "e", "r", "l", "y">> ->
             <<"h", "t", "t", "p", ":", "/", "/", "p", "u", "r", "l", ".", "o", "r", "g",
               "/", "c", "l", "d", "/", "f", "r", "e", "q", "/", "q", "u", "a", "r", "t", "e",
               "r", "l", "y">>

ControlledTerms == {<<"d", "a", "i", "l", "y">>, <<"w", "e", "e", "k", "l", "y">>,
                    <<"m", "o", "n", "t", "h", "l", "y">>, <<"y", "e", "a", "r", "l", "y">>,
                    <<"q", "u", "a", "r", "t", "e", "r", "l", "y">>}

\* C9: normalize_frequency gives absent for an absent value; for a present
\* value, with t the value lower-cased and trimmed, it gives the canonical URI
\* of t when t is daily, weekly, monthly, yearly (the 'annual' URI) or
\* quarterly, and t itself otherwise.
C9_NormalizeFrequency ==
    pc = "returned" =>
        /\ isna(arg) => ret = None
        /\ notna(arg) =>
               \E t \in {ret} \cup ControlledTerms :
                   /\ \E u \in {lower(arg)} : IsLowerOf(u, arg) /\ IsTrimOf(t, u)
                   /\ ret = IF t \in ControlledTerms THEN CanonicalFrequency(t) ELSE t

\* 'Weekly ' has given the weekly URI, or 'fortnightly' itself
C9_Witness ==
    /\ pc = "returned"
    /\ \/ /\ arg = <<"W", "e", "e", "k", "l", "y", " ">>
          /\ ret = CanonicalFrequency(<<"w", "e", "e", "k", "l", "y">>)
       \/ /\ arg = <<"f", "o", "r", "t", "n", "i", "g", "h", "t", "l", "y">>
          /\ ret = arg

---------------------------------------------------------------------------
(* C10 *)

\* the accrual periodicity triples a step adds for the row's dataset URI
AddedFrequency(g, h, uri) ==
    {t \in h \ g : t[1] = uri /\ t[2] = "dct:accrualPeriodicity"}

\* what C10 says of a builder's step from graph g to graph h for a row: the
\* object is a URI reference only for a controlled term, whose canonical URI
\* it then is, and every other present, non-empty text is a plain literal
FrequencyAsClaimed(g, h, row, i) ==
    LET f == get(row, "frequency")
        t == strip(lower(f))
        uri == dataset_uri(row, i)
    IN  /\ \A tr \in AddedFrequency(g, h, uri) :
               tr[3].kind = "URIRef" =>
                   notna(f) /\ t \in ControlledTerms /\ tr[3].value = CanonicalFrequency(t)
        /\ (notna(f) /\ t \in ControlledTerms) =>
               <<uri, "dct:accrualPeriodicity", URIRef(CanonicalFrequency(t))>> \in h
        /\ (notna(f) /\ f # <<>> /\ t \notin ControlledTerms) =>
               <<uri, "dct:accrualPeriodicity", Literal(t)>> \in h

\* the same with the two cases the code adds: a text that starts with 'http'
\* once lower-cased and trimmed is a URI reference too, and a text that is
\* blank once trimmed gives no triple
FrequencyAsBuilt(g, h, row, i) ==
    LET f == get(row, "frequency")
        t == strip(lower(f))
        uri == dataset_uri(row, i)
        isUri == t \in ControlledTerms \/ (Len(t) >= 4 /\ SubSeq(t, 1, 4) = <<"h", "t", "t", "p">>)
    IN  /\ \A tr \in AddedFrequency(g, h, uri) :
               /\ notna(f) /\ t # <<>>
               /\ tr[3].kind = "URIRef" <=> isUri
        /\ (notna(f) /\ t \in ControlledTerms) =>
               <<uri, "dct:accrualPeriodicity", URIRef(CanonicalFrequency(t))>> \in h
        /\ (notna(f) /\ t \notin ControlledTerms /\ isUri) =>
               <<uri, "dct:accrualPeriodicity", URIRef(t)>> \in h
        /\ (notna(f) /\ t # <<>> /\ ~isUri) =>
               <<uri, "dct:accrualPeriodicity", Literal(t)>> \in h
        /\ (isna(f) \/ t = <<>>) => AddedFrequency(g, h, uri) = {}

\* C10: in both graphs the object of an accrualPeriodicity triple is a URI
\* reference only when the row's frequency, lower-cased and trimmed, is one of
\* the five controlled terms, and then it is the term's canonical URI; every
\* other present, non-empty frequency is emitted as a plain literal.
\* Fails: 'HTTP x' is emitted as the URI reference 'http x', and '  ' is not
\* emitted at all.
C10_UriOnlyForTerms ==
    [][/\ InDublinRow => FrequencyAsClaimed(dc_g, dc_g', df.rows[idx + 1], idx)
       /\ InDcatRow => FrequencyAsClaimed(dcat_g, dcat_g', df.rows[idx + 1], idx)
      ]_vars

\* C10 as amended: in both graphs the object of an accrualPeriodicity triple
\* is a URI reference exactly when the row's frequency, lower-cased and
\* trimmed, is one of the five controlled terms (then the term's canonical
\* URI) or starts with 'http' (then that text itself); every other frequency
\* that is not blank once trimmed is emitted as a plain literal, and a blank
\* one is not emitted.
C10_UriForTermsAndHttp ==
    [][/\ InDublinRow => FrequencyAsBuilt(dc_g, dc_g', df.rows[idx + 1], idx)
       /\ InDcatRow => FrequencyAsBuilt(dcat_g, dcat_g', df.rows[idx + 1], idx)
      ]_vars

\* both graphs hold a canonical URI, a free-text URI reference and a literal
C10_Witness ==
    \A g \in {dc_g, dcat_g} :
        /\ \E tr \in g : /\ tr[2] = "dct:accrualPeriodicity"
                         /\ tr[3] = URIRef(<<"h", "t", "t", "p", " ", "x">>)
        /\ \E tr \in g : /\ tr[2] = "dct:accrualPeriodicity"
                         /\ tr[3].kind = "URIRef"
                         /\ tr[3].value = CanonicalFrequency(<<"w", "e", "e", "k", "l", "y">>)

===========================================================================
